---- MODULE Spec2Model ----
(***************************************************************************)
(* Model of humanpose: the landmark-schema Intersection                    *)
(* (humanpose/intersection.py) and the adaptive skeleton topology and      *)
(* colour engine _Skeleton (humanpose/visualise/skeleton.py).              *)
(*                                                                         *)
(* Landmark names are the strings of the source; list positions are        *)
(* 0-based as in Python; a bone is a pair <<start_index, end_index>>.      *)
(* A Python exception is modelled by a result record whose field err is    *)
(* TRUE.                                                                   *)
(***************************************************************************)
EXTENDS Integers, Sequences, FiniteSets, TLC

(***************************************************************************)
(* Python list primitives                                                  *)
(***************************************************************************)

\* The set of elements of a list.
Elems(s) == {s[k] : k \in 1..Len(s)}

\* x in lst
In(x, lst) == \E k \in 1..Len(lst) : lst[k] = x

\* lst.index(x) for x in lst: the 0-based position of the first occurrence.
\* (The callers model the ValueError of an absent x themselves.)
index(lst, x) == (CHOOSE k \in 1..Len(lst) :
                     lst[k] = x /\ \A j \in 1..(k - 1) : lst[j] # x) - 1

\* lst[i] with a 0-based index i.
At(lst, i) == lst[i + 1]

\* lst[::-1]
Reverse(s) == [k \in 1..Len(s) |-> s[Len(s) + 1 - k]]

\* A list is duplicate free.
NoDup(s) == \A a, b \in 1..Len(s) : s[a] = s[b] => a = b

\* The concatenation of a list of lists (repeated list.extend).
RECURSIVE Flatten(_)
Flatten(ss) == IF ss = <<>> THEN <<>> ELSE Head(ss) \o Flatten(Tail(ss))

(***************************************************************************)
(* Python float arithmetic (IEEE 754 binary64, round to nearest, ties to   *)
(* even), as used by _compute_colours.  A non-negative value is            *)
(* [n |-> limbs, k |-> K], meaning N / 2^K, where limbs is the numeral of  *)
(* the natural number N in base 2^LimbBits, least significant limb first.  *)
(* All values of the colour computation are non-negative and far from the  *)
(* exponent limits, so only the 53-bit significand rounding matters.       *)
(***************************************************************************)

\* Significand width of a Python float.
MantissaBits == 53

\* Width of one limb of a numeral (limb products stay below 2^31).
LimbBits == 15

Base == 2 ^ LimbBits

Zeros(d) == [j \in 1..d |-> 0]

FMax(a, b) == IF a >= b THEN a ELSE b

\* Drop the leading (most significant) zero limbs.
RECURSIVE Strip(_)
Strip(a) == IF a = <<>> \/ a[Len(a)] # 0 THEN a
            ELSE Strip(SubSeq(a, 1, Len(a) - 1))

\* a + b + c for numerals a, b and a carry c.
RECURSIVE LAdd(_, _, _)
LAdd(a, b, c) ==
    IF a = <<>> /\ b = <<>> THEN (IF c = 0 THEN <<>> ELSE <<c>>)
    ELSE LET x == IF a = <<>> THEN 0 ELSE Head(a)
             y == IF b = <<>> THEN 0 ELSE Head(b)
             s == x + y + c
         IN  <<s % Base>> \o LAdd(IF a = <<>> THEN <<>> ELSE Tail(a),
                                  IF b = <<>> THEN <<>> ELSE Tail(b),
                                  s \div Base)

\* a - b - c for numerals a >= b and a borrow c.
RECURSIVE LSub(_, _, _)
LSub(a, b, c) ==
    IF a = <<>> THEN <<>>
    ELSE LET y == IF b = <<>> THEN 0 ELSE Head(b)
             d == Head(a) - y - c
         IN  <<d % Base>> \o LSub(Tail(a),
                                  IF b = <<>> THEN <<>> ELSE Tail(b),
                                  IF d < 0 THEN 1 ELSE 0)

\* a * v + c for a numeral a and a single limb v.
RECURSIVE LMulLimb(_, _, _)
LMulLimb(a, v, c) ==
    IF a = <<>> THEN (IF c = 0 THEN <<>> ELSE <<c>>)
    ELSE LET p == Head(a) * v + c
         IN  <<p % Base>> \o LMulLimb(Tail(a), v, p \div Base)

\* a * b.
RECURSIVE LMul(_, _)
LMul(a, b) == IF b = <<>> THEN <<>>
              ELSE LAdd(LMulLimb(a, Head(b), 0), <<0>> \o LMul(a, Tail(b)), 0)

\* The numeral of a natural number and back.
RECURSIVE FromNat(_)
FromNat(v) == IF v = 0 THEN <<>> ELSE <<v % Base>> \o FromNat(v \div Base)

RECURSIVE ToNat(_)
ToNat(a) == IF a = <<>> THEN 0 ELSE Head(a) + Base * ToNat(Tail(a))

\* Number of bits of a small natural number.
RECURSIVE NatBits(_)
NatBits(v) == IF v = 0 THEN 0 ELSE 1 + NatBits(v \div 2)

\* Number of significant bits of a numeral without leading zero limbs.
BitLen(a) == IF a = <<>> THEN 0
             ELSE LimbBits * (Len(a) - 1) + NatBits(a[Len(a)])

\* Bit j (0-based) of a numeral.
Bit(a, j) == LET q == j \div LimbBits
             IN  IF q >= Len(a) THEN 0
                 ELSE (a[q + 1] \div (2 ^ (j % LimbBits))) % 2

\* Some bit below bit j of the numeral is set.
LowBitsSet(a, j) ==
    LET q == j \div LimbBits
    IN  \/ \E l \in 1..q : l <= Len(a) /\ a[l] # 0
        \/ q < Len(a) /\ a[q + 1] % (2 ^ (j % LimbBits)) # 0

\* a * 2^d.
ShiftLeft(a, d) == Zeros(d \div LimbBits) \o LMulLimb(a, 2 ^ (d % LimbBits), 0)

\* floor(a / p) for a single limb p > 0, developed from the most
\* significant limb down; r is the running remainder.
RECURSIVE LDivLimb(_, _, _)
LDivLimb(a, p, r) ==
    IF a = <<>> THEN <<>>
    ELSE LET cur == r * Base + a[Len(a)]
         IN  LDivLimb(SubSeq(a, 1, Len(a) - 1), p, cur % p) \o <<cur \div p>>

\* floor(a / 2^d).
ShiftRight(a, d) ==
    LET q == d \div LimbBits
    IN  IF q >= Len(a) THEN <<>>
        ELSE Strip(LDivLimb(SubSeq(a, q + 1, Len(a)), 2 ^ (d % LimbBits), 0))

\* Round an exact value to a float: keep MantissaBits significant bits,
\* to nearest, ties to even.
Round53(x) ==
    LET n == Strip(x.n)
        d == BitLen(n) - MantissaBits
    IN  IF d <= 0 THEN [n |-> n, k |-> x.k]
        ELSE LET kept == ShiftRight(n, d)
                 up   == Bit(n, d - 1) = 1
                         /\ (LowBitsSet(n, d - 1) \/ Bit(kept, 0) = 1)
             IN  [n |-> ShiftLeft(IF up THEN LAdd(kept, <<>>, 1) ELSE kept, d),
                  k |-> x.k]

\* float(v) of a small int v (exact).
FInt(v) == [n |-> FromNat(v), k |-> 0]

\* The numerator of x rescaled to K >= x.k fraction bits.
Scale(x, K) == ShiftLeft(x.n, K - x.k)

\* x + y, x - y (x >= y) and x * y on floats.
FAdd(x, y) == LET K == FMax(x.k, y.k)
              IN  Round53([n |-> LAdd(Scale(x, K), Scale(y, K), 0), k |-> K])

FSub(x, y) == LET K == FMax(x.k, y.k)
              IN  Round53([n |-> LSub(Scale(x, K), Scale(y, K), 0), k |-> K])

FMul(x, y) == Round53([n |-> LMul(x.n, y.n), k |-> x.k + y.k])

\* The first cnt quotient limbs of r / m after the point (r < m < Base),
\* least significant first, followed by the final remainder.
RECURSIVE DivLimbs(_, _, _, _)
DivLimbs(r, m, cnt, acc) ==
    IF cnt = 0 THEN <<acc, r>>
    ELSE DivLimbs((r * Base) % m, m, cnt - 1, <<(r * Base) \div m>> \o acc)

\* Fraction limbs developed by a division: with m < Base the quotient has
\* at least MantissaBits + 2 significant bits among them.
DivLimbCount == (MantissaBits + 2 + LimbBits) \div LimbBits + 1

\* i / m for ints i >= 0, 0 < m < Base (Python true division): the
\* correctly rounded quotient.  A non-zero remainder is recorded in one
\* further (sticky) limb, which rounds as the exact quotient does.
FDiv(i, m) ==
    LET qr == DivLimbs(i % m, m, DivLimbCount, <<>>)
        st == IF qr[2] = 0 THEN 0 ELSE 1
    IN  Round53([n |-> <<st>> \o qr[1] \o FromNat(i \div m),
                 k |-> LimbBits * (DivLimbCount + 1)])

\* int(x) for a float x >= 0: truncation.
FTrunc(x) == ToNat(ShiftRight(x.n, x.k))

(***************************************************************************)
(* _Skeleton: the static catalog                                           *)
(***************************************************************************)

\* class Sections(IntFlag)
MAIN == 1
HEAD == 2
FACE == 4
HANDS == 8
FEET == 16
FULL == 31
OBJECTS == 32

\* "for sec in _Skeleton.Sections": the single-bit members in declaration
\* order.  (Interpreters older than Python 3.11 also yield FULL here; its
\* bone list and colour map are created empty and never filled, so it
\* contributes nothing to any query.)
Sections == <<MAIN, HEAD, FACE, HANDS, FEET, OBJECTS>>

_sides == <<"left ", "right ">>

\* _body_parts in dict order; a list part has kind "list", a child:parent
\* dict part has kind "dict" and holds its items in insertion order.
BodyPartNames ==
    <<"leg", "arm", "spine", "head", "face", "hand", "foot", "objects">>

_body_parts ==
    [bp \in Elems(BodyPartNames) |->
       CASE bp = "leg"     -> [kind |-> "list",
                               joints |-> <<"foot", "ankle", "knee", "hip">>]
         [] bp = "arm"     -> [kind |-> "list",
                               joints |-> <<"hand", "wrist", "elbow",
                                            "shoulder", "clavicle">>]
         [] bp = "spine"   -> [kind |-> "list",
                               joints |-> <<"head centre", "head", "neck",
                                            "shoulder centre", "thorax",
                                            "mid torso", "belly", "pelvis">>]
         [] bp = "head"    -> [kind |-> "list",
                               joints |-> <<"head top", "nose">>]
         [] bp = "face"    -> [kind |-> "dict",
                               joints |-> <<<<"ear", "eye">>,
                                            <<"eye", "nose">>>>]
         [] bp = "hand"    -> [kind |-> "dict",
                               joints |-> <<<<"handtip", "hand">>,
                                            <<"thumb", "hand">>>>]
         [] bp = "foot"    -> [kind |-> "dict",
                               joints |-> <<<<"big toe", "ankle">>,
                                            <<"small toe", "foot">>,
                                            <<"heel", "ankle">>>>]
         [] bp = "objects" -> [kind |-> "list",
                               joints |-> <<"stick top", "stick end">>]]

_sided_bodyparts == <<"leg", "arm", "hand", "foot", "face">>

\* _part_colours; tuple is TRUE for an entry that is a plain colour tuple
\* (isinstance(..., tuple)) and FALSE for a start/end dict.
Gradient(s, e) == [tuple |-> FALSE, start |-> s, end |-> e, colour |-> <<>>]
Flat(c) == [tuple |-> TRUE, start |-> <<>>, end |-> <<>>, colour |-> c]

PartColourNames ==
    {"spine", "left leg", "right leg", "left arm", "right arm", "head",
     "objects", "left hand", "right hand", "left foot", "right foot",
     "left face", "right face"}

_part_colours ==
    [pc \in PartColourNames |->
       CASE pc = "spine"      -> Gradient(<<255, 255, 0>>, <<255, 0, 0>>)
         [] pc = "left leg"   -> Gradient(<<255, 0, 255>>, <<75, 0, 150>>)
         [] pc = "right leg"  -> Gradient(<<100, 100, 255>>, <<0, 0, 150>>)
         [] pc = "left arm"   -> Gradient(<<0, 255, 0>>, <<0, 120, 0>>)
         [] pc = "right arm"  -> Gradient(<<0, 255, 255>>, <<0, 120, 120>>)
         [] pc = "head"       -> Gradient(<<170, 170, 0>>, <<210, 210, 0>>)
         [] pc = "objects"    -> Gradient(<<175, 0, 0>>, <<175, 100, 0>>)
         [] pc = "left hand"  -> Flat(<<120, 255, 120>>)
         [] pc = "right hand" -> Flat(<<180, 255, 255>>)
         [] pc = "left foot"  -> Flat(<<255, 145, 255>>)
         [] pc = "right foot" -> Flat(<<130, 180, 255>>)
         [] pc = "left face"  -> Flat(<<120, 120, 0>>)
         [] pc = "right face" -> Flat(<<120, 120, 0>>)]

(***************************************************************************)
(* _Skeleton: bone structure                                               *)
(***************************************************************************)

\* [side + lm for lm in connection_list]
Sided(side, connection_list) ==
    [k \in 1..Len(connection_list) |-> side \o connection_list[k]]

\* SidedDict with the side put before the child only:
\* {side + key: val for key, val in connection_dict.items()}
SidedDictBareParent(side, connection_dict) ==
    [k \in 1..Len(connection_dict) |->
       <<side \o connection_dict[k][1], connection_dict[k][2]>>]

\* {side + key: side + val for key, val in connection_dict.items()}
SidedDict(side, connection_dict) ==
    [k \in 1..Len(connection_dict) |->
       <<side \o connection_dict[k][1], side \o connection_dict[k][2]>>]

\* First loop of _connect_sequence: advance the iterator to the first point
\* that exists in landmarks.  Yields <<found, pt, rest of the iterator>>;
\* when no point exists the iterator is exhausted.
RECURSIVE FindInitial(_, _)
FindInitial(landmarks, pt_it) ==
    IF pt_it = <<>> THEN <<FALSE, "", <<>>>>
    ELSE IF In(Head(pt_it), landmarks) THEN <<TRUE, Head(pt_it), Tail(pt_it)>>
    ELSE FindInitial(landmarks, Tail(pt_it))

\* MoveAlong without "pt = next_pt": every later point is connected to the
\* initial one.
RECURSIVE MoveAlongNoAdvance(_, _, _)
MoveAlongNoAdvance(landmarks, pt, pt_it) ==
    IF pt_it = <<>> THEN <<>>
    ELSE IF In(Head(pt_it), landmarks)
         THEN <<<<index(landmarks, pt), index(landmarks, Head(pt_it))>>>>
              \o MoveAlongNoAdvance(landmarks, pt, Tail(pt_it))
         ELSE MoveAlongNoAdvance(landmarks, pt, Tail(pt_it))

\* Second loop of _connect_sequence: connect pt to the next point that
\* exists and move along.
RECURSIVE MoveAlong(_, _, _)
MoveAlong(landmarks, pt, pt_it) ==
    IF pt_it = <<>> THEN <<>>
    ELSE IF In(Head(pt_it), landmarks)
         THEN <<<<index(landmarks, pt), index(landmarks, Head(pt_it))>>>>
              \o MoveAlong(landmarks, Head(pt_it), Tail(pt_it))
         ELSE MoveAlong(landmarks, pt, Tail(pt_it))

_connect_sequence(landmarks, connection_list) ==
    LET first == FindInitial(landmarks, connection_list)
    IN  MoveAlong(landmarks, first[2], first[3])

\* _connect_sequence_symmetrically that stops after the first side.
ConnectFirstSideOnly(landmarks, connection_list) ==
    _connect_sequence(landmarks, Sided(_sides[1], connection_list))

_connect_sequence_symmetrically(landmarks, connection_list) ==
    Flatten([s \in 1..Len(_sides) |->
               _connect_sequence(landmarks,
                                 Sided(_sides[s], connection_list))])

\* _connect_tree appending (index(dest), index(src)): the parent first.
RECURSIVE ConnectTreeParentFirst(_, _)
ConnectTreeParentFirst(landmarks, connection_dict) ==
    IF connection_dict = <<>> THEN <<>>
    ELSE LET child  == Head(connection_dict)[1]
             parent == Head(connection_dict)[2]
         IN  (IF In(child, landmarks) /\ In(parent, landmarks)
              THEN <<<<index(landmarks, parent), index(landmarks, child)>>>>
              ELSE <<>>)
             \o ConnectTreeParentFirst(landmarks, Tail(connection_dict))

RECURSIVE _connect_tree(_, _)
_connect_tree(landmarks, connection_dict) ==
    IF connection_dict = <<>> THEN <<>>
    ELSE LET src  == Head(connection_dict)[1]
             dest == Head(connection_dict)[2]
         IN  (IF In(src, landmarks) /\ In(dest, landmarks)
              THEN <<<<index(landmarks, src), index(landmarks, dest)>>>>
              ELSE <<>>)
             \o _connect_tree(landmarks, Tail(connection_dict))

_connect_tree_symmetrically(landmarks, connection_dict) ==
    Flatten([s \in 1..Len(_sides) |->
               _connect_tree(landmarks,
                             SidedDict(_sides[s], connection_dict))])

\* The first element of lst that is in landmarks, as a list of at most one
\* name ("for x in lst: if x in landmarks: ...; break").
RECURSIVE FirstPresent(_, _)
FirstPresent(landmarks, lst) ==
    IF lst = <<>> THEN <<>>
    ELSE IF In(Head(lst), landmarks) THEN <<Head(lst)>>
    ELSE FirstPresent(landmarks, Tail(lst))

\* A returned value, and a raised ValueError (list.index of an absent name).
Ok(v) == [err |-> FALSE, val |-> v]
Raise == [err |-> TRUE, val |-> <<>>]

\* for end in limb_ends: connections.append((end, lm))
EndsTo(limb_ends, lm) == [k \in 1..Len(limb_ends) |-> <<limb_ends[k], lm>>]

\* _limb2spine whose last resort joins each shoulder-side limb end to the
\* hip of the other side.
LimbToSpineCrossed(landmarks, limb_end, spine_attachment, spine_list) ==
    IF \E s \in 1..Len(_sides) : ~In(_sides[s] \o limb_end, landmarks)
    THEN Raise
    ELSE
      LET limb_ends  == [s \in 1..Len(_sides) |->
                           index(landmarks, _sides[s] \o limb_end)]
          attachment == FirstPresent(landmarks, spine_attachment)
          next_spine == FirstPresent(landmarks, spine_list)
      IN  IF attachment # <<>>
          THEN Ok(EndsTo(limb_ends, index(landmarks, attachment[1])))
          ELSE IF next_spine # <<>>
          THEN Ok(<<limb_ends>>
                  \o EndsTo(limb_ends, index(landmarks, next_spine[1])))
          ELSE IF limb_end # "hip"
          THEN IF \E s \in 1..Len(_sides) : ~In(_sides[s] \o "hip", landmarks)
               THEN Raise
               ELSE Ok(<<limb_ends>>
                       \o [s \in 1..Len(_sides) |->
                             <<limb_ends[s],
                               index(landmarks,
                                     _sides[Len(_sides) + 1 - s] \o "hip")>>])
          ELSE Ok(<<limb_ends>>)

_limb2spine(landmarks, limb_end, spine_attachment, spine_list) ==
    IF \E s \in 1..Len(_sides) : ~In(_sides[s] \o limb_end, landmarks)
    THEN Raise
    ELSE
      LET limb_ends  == [s \in 1..Len(_sides) |->
                           index(landmarks, _sides[s] \o limb_end)]
          attachment == FirstPresent(landmarks, spine_attachment)
          next_spine == FirstPresent(landmarks, spine_list)
      IN  IF attachment # <<>>
          THEN Ok(EndsTo(limb_ends, index(landmarks, attachment[1])))
          ELSE IF next_spine # <<>>
          THEN Ok(<<limb_ends>>
                  \o EndsTo(limb_ends, index(landmarks, next_spine[1])))
          ELSE IF limb_end # "hip"
          THEN IF \E s \in 1..Len(_sides) : ~In(_sides[s] \o "hip", landmarks)
               THEN Raise
               ELSE Ok(<<limb_ends>>
                       \o [s \in 1..Len(_sides) |->
                             <<limb_ends[s],
                               index(landmarks, _sides[s] \o "hip")>>])
          ELSE Ok(<<limb_ends>>)

\* lst[a:] and lst[a:b:-1] for 0-based a, b (b exclusive, a > b); SliceUp
\* is the same stretch of the list in forward order, SliceAll is lst[:].
SliceAll(lst, a) == lst
SliceFrom(lst, a) == SubSeq(lst, a + 1, Len(lst))
SliceUp(lst, a, b) == [k \in 1..(a - b) |-> lst[b + 1 + k]]
SliceDown(lst, a, b) == [k \in 1..(a - b) |-> lst[a + 2 - k]]

\* ShoulderPass that takes a shoulder joint only when it exists on every
\* side: "if all(side + shoulder_joint in landmarks for side in sides)".
ShoulderPassBothSides(landmarks) ==
    LET spine == _body_parts["spine"].joints
        both(joint) == \A n \in 1..Len(_sides) :
                          In(_sides[n] \o joint, landmarks)
    IN  IF both("clavicle")
        THEN _limb2spine(landmarks, "clavicle",
                         <<"shoulder centre", "neck">>, SliceFrom(spine, 3))
        ELSE IF both("shoulder")
        THEN _limb2spine(landmarks, "shoulder",
                         <<"shoulder centre", "neck">>, SliceFrom(spine, 3))
        ELSE Ok(<<>>)

\* ShoulderPass trying ("shoulder", "clavicle") in this order.
ShoulderPassShoulderFirst(landmarks) ==
    LET spine == _body_parts["spine"].joints
        joint == FirstPresent(landmarks,
                              Sided(_sides[1], <<"shoulder", "clavicle">>))
    IN  IF joint = <<>> THEN Ok(<<>>)
        ELSE _limb2spine(landmarks,
                         IF joint[1] = _sides[1] \o "clavicle"
                         THEN "clavicle" ELSE "shoulder",
                         <<"shoulder centre", "neck">>, SliceFrom(spine, 3))

\* ShoulderPass with the preferred attachments in the order ("neck",
\* "shoulder centre").
ShoulderPassNeckFirst(landmarks) ==
    LET spine == _body_parts["spine"].joints
        joint == FirstPresent(landmarks,
                              Sided(_sides[1], <<"clavicle", "shoulder">>))
    IN  IF joint = <<>> THEN Ok(<<>>)
        ELSE _limb2spine(landmarks,
                         IF joint[1] = _sides[1] \o "clavicle"
                         THEN "clavicle" ELSE "shoulder",
                         <<"neck", "shoulder centre">>, SliceFrom(spine, 3))

\* The shoulder pass of _compute_bones: "for shoulder_joint in (clavicle,
\* shoulder): if left shoulder_joint in landmarks: ...; break".
ShoulderPass(landmarks) ==
    LET spine == _body_parts["spine"].joints
        joint == FirstPresent(landmarks,
                              Sided(_sides[1], <<"clavicle", "shoulder">>))
    IN  IF joint = <<>> THEN Ok(<<>>)
        ELSE _limb2spine(landmarks,
                         IF joint[1] = _sides[1] \o "clavicle"
                         THEN "clavicle" ELSE "shoulder",
                         <<"shoulder centre", "neck">>, SliceFrom(spine, 3))

\* HipPass with ("pelvis") for ("pelvis", ): a string, whose characters are
\* then taken for the attachment names.
HipPassNoTuple(landmarks) ==
    LET spine == _body_parts["spine"].joints
    IN  _limb2spine(landmarks, "hip", <<"p", "e", "l", "v", "i", "s">>,
                    SliceDown(spine, Len(spine) - 2, 1))

\* HipPass with the bare name "hip" for the preferred attachment.
HipPassBareHip(landmarks) ==
    LET spine == _body_parts["spine"].joints
    IN  _limb2spine(landmarks, "hip", <<"hip">>,
                    SliceDown(spine, Len(spine) - 2, 1))

HipPass(landmarks) ==
    LET spine == _body_parts["spine"].joints
    IN  _limb2spine(landmarks, "hip", <<"pelvis">>,
                    SliceDown(spine, Len(spine) - 2, 1))

\* HeadLink with the head points taken from the end of the list given
\* (the head list walked forward for [::-1]).
RECURSIVE HeadLinkTopFirst(_, _)
HeadLinkTopFirst(landmarks, head_pts) ==
    IF head_pts = <<>> THEN <<>>
    ELSE LET top_spine == FirstPresent(landmarks, _body_parts["spine"].joints)
             head_pt == head_pts[Len(head_pts)]
         IN  IF In(head_pt, landmarks) /\ top_spine # <<>>
             THEN <<<<index(landmarks, head_pt),
                      index(landmarks, top_spine[1])>>>>
             ELSE HeadLinkTopFirst(landmarks,
                                   SubSeq(head_pts, 1, Len(head_pts) - 1))

\* The head-to-spine link of _compute_bones: the first pair (head_pt,
\* top_spine), head points in reverse order outermost, with both present.
RECURSIVE HeadLink(_, _)
HeadLink(landmarks, head_pts) ==
    IF head_pts = <<>> THEN <<>>
    ELSE LET top_spine == FirstPresent(landmarks, _body_parts["spine"].joints)
         IN  IF In(Head(head_pts), landmarks) /\ top_spine # <<>>
             THEN <<<<index(landmarks, Head(head_pts)),
                      index(landmarks, top_spine[1])>>>>
             ELSE HeadLink(landmarks, Tail(head_pts))

NoBones == [sec \in Elems(Sections) |-> <<>>]

\* MainBones with the spine chain assembled first.
MainBonesSpineFirst(landmarks) ==
    _connect_sequence(landmarks, _body_parts["spine"].joints)
    \o _connect_sequence_symmetrically(landmarks, _body_parts["arm"].joints)
    \o ShoulderPass(landmarks).val
    \o _connect_sequence_symmetrically(landmarks, _body_parts["leg"].joints)
    \o HipPass(landmarks).val

\* The MAIN section in construction order.
MainBones(landmarks) ==
    _connect_sequence_symmetrically(landmarks, _body_parts["arm"].joints)
    \o ShoulderPass(landmarks).val
    \o _connect_sequence_symmetrically(landmarks, _body_parts["leg"].joints)
    \o HipPass(landmarks).val
    \o _connect_sequence(landmarks, _body_parts["spine"].joints)

_compute_bones(landmarks) ==
    IF ShoulderPass(landmarks).err \/ HipPass(landmarks).err THEN Raise
    ELSE Ok([sec \in Elems(Sections) |->
              CASE sec = MAIN    -> MainBones(landmarks)
                [] sec = HEAD    ->
                     _connect_sequence(landmarks, _body_parts["head"].joints)
                     \o HeadLink(landmarks,
                                 Reverse(_body_parts["head"].joints))
                [] sec = FACE    ->
                     _connect_tree_symmetrically(landmarks,
                                                 _body_parts["face"].joints)
                [] sec = HANDS   ->
                     _connect_tree_symmetrically(landmarks,
                                                 _body_parts["hand"].joints)
                [] sec = FEET    ->
                     _connect_tree_symmetrically(landmarks,
                                                 _body_parts["foot"].joints)
                [] sec = OBJECTS ->
                     _connect_sequence(landmarks,
                                       _body_parts["objects"].joints)])

(***************************************************************************)
(* _Skeleton: colours                                                      *)
(***************************************************************************)

\* One channel of the colour of the i-th of n existing joints of a part:
\* int(start * (1 - t) + end * t), with t = i / (n - 1) a float when
\* n > 1 and the int 1 otherwise.
ChannelValue(start, end, i, n) ==
    IF n > 1
    THEN LET t == FDiv(i, n - 1)
         IN  FTrunc(FAdd(FMul(FInt(start), FSub(FInt(1), t)),
                         FMul(FInt(end), t)))
    ELSE start * (1 - 1) + end * 1

\* The longest list part, and the (start, end) channel pairs in use.
MaxPartJoints ==
    CHOOSE m \in 1..64 :
        /\ \E bp \in DOMAIN _body_parts : Len(_body_parts[bp].joints) = m
        /\ \A bp \in DOMAIN _body_parts : Len(_body_parts[bp].joints) <= m

ChannelPairs ==
    {<<_part_colours[pc].start[j], _part_colours[pc].end[j]>> :
        pc \in {q \in PartColourNames : ~_part_colours[q].tuple}, j \in 1..3}

\* ChannelValue evaluated once for every argument the catalog can give it.
ChannelTable ==
    LET dom == {q \in ChannelPairs \X (1..MaxPartJoints)
                        \X (0..(MaxPartJoints - 1)) : q[3] < q[2]}
        rows == {<<q, ChannelValue(q[1][1], q[1][2], q[3], q[2])>> : q \in dom}
    IN  [q \in dom |-> (CHOOSE r \in rows : r[1] = q)[2]]

\* The colour tuple of the i-th of n existing joints of a gradient part.
GradientColour(pc, i, n) ==
    [j \in 1..3 |-> ChannelTable[<<<<pc.start[j], pc.end[j]>>, n, i>>]]

\* The if/elif chain choosing the section of a body part.
\* SectionOf with the sections of "hand" and "foot" exchanged.
SectionOfSwapped(body_part) ==
    IF body_part = "spine" \/ body_part = "arm" \/ body_part = "leg" THEN MAIN
    ELSE IF body_part = "head" THEN HEAD
    ELSE IF body_part = "face" THEN FACE
    ELSE IF body_part = "hand" THEN FEET
    ELSE IF body_part = "foot" THEN HANDS
    ELSE OBJECTS

SectionOf(body_part) ==
    IF body_part = "spine" \/ body_part = "arm" \/ body_part = "leg" THEN MAIN
    ELSE IF body_part = "head" THEN HEAD
    ELSE IF body_part = "face" THEN FACE
    ELSE IF body_part = "hand" THEN HANDS
    ELSE IF body_part = "foot" THEN FEET
    ELSE OBJECTS

\* ColouredJoints with joints.values() for joints.keys(): the parents of a
\* tree part are coloured instead of its children.
ColouredJointsValues(body_part) ==
    LET bp == _body_parts[body_part]
    IN  IF bp.kind = "dict" THEN [k \in 1..Len(bp.joints) |-> bp.joints[k][2]]
        ELSE bp.joints

\* The names of a body part that get a colour: the entries of a list, the
\* keys of a dict (joints.keys()).
ColouredJoints(body_part) ==
    LET bp == _body_parts[body_part]
    IN  IF bp.kind = "dict" THEN [k \in 1..Len(bp.joints) |-> bp.joints[k][1]]
        ELSE bp.joints

\* [landmarks.index(side + joint) for joint in joints
\*                                if side + joint in landmarks]
RECURSIVE ExistingJoints(_, _)
ExistingJoints(landmarks, names) ==
    IF names = <<>> THEN <<>>
    ELSE (IF In(Head(names), landmarks)
          THEN <<index(landmarks, Head(names))>> ELSE <<>>)
         \o ExistingJoints(landmarks, Tail(names))

\* The assignments "self._colours[skeleton_sec][joint] = colour" made for
\* one body part and side, in program order, as <<joint, colour>> pairs.
SideAssignments(landmarks, body_part, side) ==
    LET pc          == _part_colours[side \o body_part]
        part_joints == ExistingJoints(landmarks,
                                      Sided(side, ColouredJoints(body_part)))
    IN  [i \in 1..Len(part_joints) |->
           <<part_joints[i],
             IF pc.tuple THEN pc.colour
             ELSE GradientColour(pc, i - 1, Len(part_joints))>>]

PartAssignments(landmarks, body_part) ==
    LET sides == IF In(body_part, _sided_bodyparts) THEN _sides ELSE <<"">>
    IN  Flatten([s \in 1..Len(sides) |->
                   SideAssignments(landmarks, body_part, sides[s])])

\* The dict left by a sequence of assignments d[key] = value.
DictOf(assignments) ==
    [key \in {assignments[a][1] : a \in 1..Len(assignments)} |->
       LET last == CHOOSE a \in 1..Len(assignments) :
                     /\ assignments[a][1] = key
                     /\ \A b \in (a + 1)..Len(assignments) :
                          assignments[b][1] # key
       IN  assignments[last][2]]

NoColours == [sec \in Elems(Sections) |-> <<>>]

_compute_colours(landmarks) ==
    [sec \in Elems(Sections) |->
       DictOf(Flatten([b \in 1..Len(BodyPartNames) |->
                         IF SectionOf(BodyPartNames[b]) = sec
                         THEN PartAssignments(landmarks, BodyPartNames[b])
                         ELSE <<>>]))]

(***************************************************************************)
(* _Skeleton: queries                                                      *)
(***************************************************************************)

\* a & b on non-negative ints.
RECURSIVE BitAnd(_, _)
BitAnd(a, b) ==
    IF a = 0 \/ b = 0 THEN 0
    ELSE (a % 2) * (b % 2) + 2 * BitAnd(a \div 2, b \div 2)

\* The section test written as a comparison, "sec <= skeleton_sections".
EnabledUpTo(skeleton_sections) ==
    SelectSeq(Sections, LAMBDA sec : sec <= skeleton_sections)

\* The sections "for sec in Sections: if sec & skeleton_sections", in order.
Enabled(skeleton_sections) ==
    SelectSeq(Sections, LAMBDA sec : BitAnd(sec, skeleton_sections) # 0)

get_bone_list(bones, skeleton_sections) ==
    LET secs == Enabled(skeleton_sections)
    IN  Flatten([k \in 1..Len(secs) |-> bones[secs[k]]])

print_bones(bones, landmarks, skeleton_sections) ==
    LET bl == get_bone_list(bones, skeleton_sections)
    IN  [k \in 1..Len(bl) |-> <<At(landmarks, bl[k][1]), At(landmarks, bl[k][2])>>]

\* colours.update(self._colours[sec]) for the enabled sections in order:
\* a later section overwrites the keys it shares with an earlier one.
RECURSIVE UpdateAll(_, _, _)
UpdateAll(colours, dicts, secs) ==
    IF secs = <<>> THEN colours
    ELSE LET d == dicts[Head(secs)]
         IN  UpdateAll([key \in DOMAIN colours \cup DOMAIN d |->
                          IF key \in DOMAIN d THEN d[key] ELSE colours[key]],
                       dicts, Tail(secs))

get_colour_dict(colours, skeleton_sections) ==
    UpdateAll(<<>>, colours, Enabled(skeleton_sections))

print_colours(colours, landmarks, skeleton_sections) ==
    LET cd == get_colour_dict(colours, skeleton_sections)
    IN  [name \in {At(landmarks, key) : key \in DOMAIN cd} |->
           cd[index(landmarks, name)]]

(***************************************************************************)
(* State                                                                   *)
(***************************************************************************)

VARIABLES
    schema,           \* the landmarks list a _Skeleton is constructed from
    status,           \* "new" | "ok" | "ValueError": the outcome of the
                      \* construction (or the direct call) under way
    _bones,           \* self._bones
    _colours,         \* self._colours
    ret,              \* what the last query returned
    connection_list,  \* the argument of a direct _connect_sequence call
    connections,      \* what that call returned
    src,              \* Intersection: the source landmark list
    dest,             \* Intersection: the destination landmark list
    landmarks,        \* Intersection.landmarks
    _src_vec,         \* Intersection._src_vec
    _dest_vec,        \* Intersection._dest_vec
    out               \* what the last source() / destination() call did

skeleton_vars == <<schema, status, _bones, _colours, ret>>
sequence_vars == <<connection_list, connections>>
intersection_vars == <<src, dest, landmarks, _src_vec, _dest_vec, out>>
vars == <<skeleton_vars, sequence_vars, intersection_vars>>

NoRet == [op |-> "none", mask |-> 0, val |-> <<>>]
\* An array is its shape and its elements in row-major order; NoArray
\* stands where there is no array.
NoArray == [shape |-> <<>>, data |-> <<>>]

\* returns: "array" | "None" | "IndexError"
NoOut == [op |-> "none", returns |-> "none", keypoints |-> NoArray,
          val |-> NoArray]

\* The parts of the state a specification does not use.
SkeletonIdle ==
    /\ schema = <<>> /\ status = "new"
    /\ _bones = NoBones /\ _colours = NoColours /\ ret = NoRet

SequenceIdle == connection_list = <<>> /\ connections = <<>>

IntersectionIdle ==
    /\ src = <<>> /\ dest = <<>> /\ landmarks = <<>>
    /\ _src_vec = <<>> /\ _dest_vec = <<>> /\ out = NoOut

(***************************************************************************)
(* Landmark configurations the skeleton is constructed from                *)
(***************************************************************************)

\* One layout of every name the catalog can generate (chain entries, tree
\* children and tree parents with both side prefixes, the unsided spine,
\* head and objects names), followed by names the catalog does not know.
Layout ==
    <<"head top", "nose", "left ear", "left eye", "left nose", "right ear",
      "right eye", "right nose", "head centre", "head", "neck",
      "left clavicle", "right clavicle", "left shoulder", "right shoulder",
      "shoulder centre", "left elbow", "right elbow", "left wrist",
      "right wrist", "left hand", "right hand", "left handtip",
      "right handtip", "left thumb", "right thumb", "thorax", "mid torso",
      "belly", "left hip", "right hip", "pelvis", "left knee", "right knee",
      "left ankle", "right ankle", "left foot", "right foot", "left heel",
      "right heel", "left big toe", "right big toe", "left small toe",
      "right small toe", "stick top", "stick end", "tail", "hip",
      "left wing">>

UnknownNames == {"tail", "hip", "left wing"}

Orders == {Layout, Reverse(Layout)}

\* The names of a set in the order of a layout.
Configuration(order, names) == SelectSeq(order, LAMBDA x : x \in names)

\* Names that, taken in every combination, exercise one part of the
\* construction each.
SpineNames == Elems(_body_parts["spine"].joints)
Hips == {"left hip", "right hip"}

Pools ==
    { SpineNames \cup Hips \cup {"nose"},
      {"left shoulder", "right shoulder", "left clavicle", "right clavicle",
       "shoulder centre", "neck", "thorax", "mid torso", "belly", "pelvis"}
        \cup Hips,
      {"head top", "nose", "head centre", "head", "neck", "pelvis",
       "left shoulder", "right shoulder"} \cup Hips,
      Elems(Sided("left ", _body_parts["arm"].joints))
        \cup {"right shoulder", "right clavicle", "right hand"} \cup Hips,
      Elems(Sided("right ", _body_parts["arm"].joints))
        \cup {"left shoulder", "left clavicle"} \cup Hips,
      Elems(Sided("left ", _body_parts["leg"].joints))
        \cup Elems(Sided("right ", _body_parts["leg"].joints))
        \cup {"left heel", "left big toe", "left small toe"},
      {"left ear", "left eye", "left nose", "nose", "right eye", "right nose",
       "left handtip", "left thumb", "left hand", "right thumb"} \cup Hips,
      {"stick top", "stick end", "left wing", "tail", "hip", "pelvis"}
        \cup Hips }

\* How many names of the layout may be absent from an otherwise full
\* configuration.
MaxAbsent == 1

\* The sets of at most k of the given names.
RECURSIVE UpTo(_, _)
UpTo(k, names) ==
    IF k = 0 THEN {{}}
    ELSE UpTo(k - 1, names)
         \cup {g \cup {x} : g \in UpTo(k - 1, names), x \in names}

NearlyFull == {Elems(Layout) \ gone : gone \in UpTo(MaxAbsent, Elems(Layout))}

\* The fixture of the head-link and hip heuristics.
Fixture == <<"nose", "left hip", "right hip", "pelvis">>

\* A name set of the family: within a pool, or all but a few names.
InFamily(names) ==
    \/ \E pool \in Pools : names \subseteq pool
    \/ Cardinality(Elems(Layout) \ names) <= MaxAbsent

Schemas ==
    {Configuration(order, names) :
        order \in Orders,
        names \in UNION {SUBSET pool : pool \in Pools} \cup NearlyFull}

(***************************************************************************)
(* _Skeleton: operations                                                   *)
(***************************************************************************)

\* _Skeleton(schema): __init__ runs _compute_bones, then _compute_colours.
\* A ValueError raised by _compute_bones leaves no object behind.
Construct ==
    /\ status = "new"
    /\ LET b == _compute_bones(schema)
       IN  IF b.err
           THEN /\ status' = "ValueError"
                /\ UNCHANGED <<_bones, _colours>>
           ELSE /\ status' = "ok"
                /\ _bones' = b.val
                /\ _colours' = _compute_colours(schema)
    /\ UNCHANGED <<schema, ret, sequence_vars, intersection_vars>>

Init ==
    /\ schema \in Schemas
    /\ status = "new" /\ _bones = NoBones /\ _colours = NoColours
    /\ ret = NoRet
    /\ SequenceIdle /\ IntersectionIdle

Next == Construct

Spec == Init /\ [][Next]_vars

(***************************************************************************)
(* _Skeleton: queries on a constructed skeleton                            *)
(***************************************************************************)

\* Every value of the skeleton_sections argument: the OR-combinations of
\* the section flags.
Masks == 0..(FULL + OBJECTS)

\* get_bone_list extending the stored MAIN list in place
\* ("bones = self._bones[MAIN]" for "bones = []").
QueryInPlace(op, mask, val) ==
    /\ status = "ok"
    /\ ret = NoRet
    /\ ret' = [op |-> op, mask |-> mask, val |-> val]
    /\ _bones' = [_bones EXCEPT
                    ![MAIN] = IF op = "get_bone_list" THEN val ELSE @]
    /\ UNCHANGED <<schema, status, _colours,
                   sequence_vars, intersection_vars>>

\* A query is called on a constructed skeleton by a caller that holds no
\* earlier result.
Query(op, mask, val) ==
    /\ status = "ok"
    /\ ret = NoRet
    /\ ret' = [op |-> op, mask |-> mask, val |-> val]
    /\ UNCHANGED <<schema, status, _bones, _colours,
                   sequence_vars, intersection_vars>>

GetBoneList ==
    \E mask \in Masks :
        Query("get_bone_list", mask, get_bone_list(_bones, mask))

PrintBones ==
    \E mask \in Masks :
        Query("print_bones", mask, print_bones(_bones, schema, mask))

GetColourDict ==
    \E mask \in Masks :
        Query("get_colour_dict", mask, get_colour_dict(_colours, mask))

PrintColours ==
    \E mask \in Masks :
        Query("print_colours", mask, print_colours(_colours, schema, mask))

\* The caller is done with the value a query returned (the renderers loop
\* over it and drop it).
Consume ==
    /\ ret # NoRet
    /\ ret' = NoRet
    /\ UNCHANGED <<schema, status, _bones, _colours,
                   sequence_vars, intersection_vars>>

\* Configurations in the style of pose systems the catalog is written for:
\* a 17-keypoint detector, a 25-joint depth sensor, a body-with-feet
\* detector, and a player holding a stick.
Keypoints17 ==
    <<"nose", "left eye", "right eye", "left ear", "right ear",
      "left shoulder", "right shoulder", "left elbow", "right elbow",
      "left wrist", "right wrist", "left hip", "right hip", "left knee",
      "right knee", "left ankle", "right ankle">>

DepthSensor25 ==
    <<"pelvis", "mid torso", "neck", "head", "left shoulder", "left elbow",
      "left wrist", "left hand", "right shoulder", "right elbow",
      "right wrist", "right hand", "left hip", "left knee", "left ankle",
      "left foot", "right hip", "right knee", "right ankle", "right foot",
      "shoulder centre", "left handtip", "left thumb", "right handtip",
      "right thumb">>

BodyWithFeet ==
    <<"nose", "neck", "right shoulder", "right elbow", "right wrist",
      "left shoulder", "left elbow", "left wrist", "pelvis", "right hip",
      "right knee", "right ankle", "left hip", "left knee", "left ankle",
      "right eye", "left eye", "right ear", "left ear", "left big toe",
      "left small toe", "left heel", "right big toe", "right small toe",
      "right heel">>

StickPlayer ==
    <<"stick top", "stick end", "head top", "nose", "left shoulder",
      "right shoulder", "left hip", "right hip", "tail">>

\* The unsided catalog names: their absence never stops the construction.
Unsided ==
    SpineNames \cup Elems(_body_parts["head"].joints)
    \cup Elems(_body_parts["objects"].joints)

QuerySchemas ==
    {Layout, Reverse(Layout), Keypoints17, DepthSensor25, BodyWithFeet,
     StickPlayer, Fixture}
    \cup {Configuration(Layout, Elems(Layout) \ gone) :
             gone \in UpTo(MaxAbsent, Unsided \cup UnknownNames)}

InitQuery ==
    /\ schema \in QuerySchemas
    /\ status = "new" /\ _bones = NoBones /\ _colours = NoColours
    /\ ret = NoRet
    /\ SequenceIdle /\ IntersectionIdle

NextQuery ==
    \/ Construct
    \/ GetBoneList
    \/ PrintBones
    \/ GetColourDict
    \/ PrintColours
    \/ Consume

SpecQuery == InitQuery /\ [][NextQuery]_vars

(***************************************************************************)
(* _connect_sequence called on its own (a static method)                   *)
(***************************************************************************)

\* The canonical chains: the unsided list parts and the sided ones with
\* each side prefix.
Chains ==
    {_body_parts[bp].joints : bp \in {"spine", "head", "objects"}}
    \cup {Sided(_sides[s], _body_parts[bp].joints) :
             bp \in {"leg", "arm"}, s \in 1..Len(_sides)}

\* How many names from outside the chain a configuration may hold, and
\* the names they are drawn from.
MaxExtra == 1

ExtraNames == UnknownNames \cup Hips \cup {"nose", "left knee"}

ChainSchemas(chain) ==
    {Configuration(order, names \cup extra) :
        order \in Orders,
        names \in SUBSET Elems(chain),
        extra \in UpTo(MaxExtra, ExtraNames)}

\* The list without its element at (1-based) position k.
Without(lst, k) == SubSeq(lst, 1, k - 1) \o SubSeq(lst, k + 1, Len(lst))

\* _Skeleton._connect_sequence(schema, connection_list)
ConnectSequence ==
    /\ status = "new"
    /\ connections' = _connect_sequence(schema, connection_list)
    /\ status' = "ok"
    /\ ret' = [op |-> "_connect_sequence", mask |-> 0, val |-> <<>>]
    /\ UNCHANGED <<schema, connection_list, _bones, _colours,
                   intersection_vars>>

\* The same call for the configuration that lacks one of the landmarks.
ConnectWithout ==
    /\ status = "ok"
    /\ \E k \in 1..Len(schema) :
         /\ schema' = Without(schema, k)
         /\ connections' = _connect_sequence(Without(schema, k),
                                             connection_list)
    /\ ret' = [op |-> "without", mask |-> 0, val |-> <<>>]
    /\ UNCHANGED <<status, connection_list, _bones, _colours,
                   intersection_vars>>

InitSequence ==
    /\ connection_list \in Chains
    /\ schema \in ChainSchemas(connection_list)
    /\ connections = <<>>
    /\ status = "new" /\ _bones = NoBones /\ _colours = NoColours
    /\ ret = NoRet
    /\ IntersectionIdle

NextSequence == ConnectSequence \/ ConnectWithout

SpecSequence == InitSequence /\ [][NextSequence]_vars

\* The chain joints that exist in the configuration, in chain order.
Present == SelectSeq(connection_list, LAMBDA pt : In(pt, schema))

\* The bones that join each consecutive pair of existing chain joints.
ConsecutivePairs ==
    [k \in 1..(Len(Present) - 1) |->
       <<index(schema, Present[k]), index(schema, Present[k + 1])>>]

\* C6: the bones of a chain connect each consecutive pair of present
\* chain joints, earlier joint first (so p present joints give
\* max(0, p - 1) bones forming one path over exactly the present joints),
\* and removing a single joint from the schema never increases the bone
\* count.
C6_GapSkipping ==
    /\ [](status = "ok" =>
            /\ connections = ConsecutivePairs
            /\ Len(connections) = FMax(0, Len(Present) - 1))
    /\ [][status = "ok" /\ status' = "ok" =>
            Len(connections') <= Len(connections)]_vars

\* A chain that bridges a gap (an absent joint between two present ones)
\* after a joint was removed, still holding at least two bones.
C6_Witness ==
    /\ status = "ok" /\ ret.op = "without"
    /\ Len(connections) >= 2
    /\ \E a, b, c \in 1..Len(connection_list) :
         /\ a < b /\ b < c
         /\ In(connection_list[a], schema)
         /\ ~In(connection_list[b], schema)
         /\ In(connection_list[c], schema)

(***************************************************************************)
(* Intersection                                                            *)
(***************************************************************************)

\* The loop of Intersection.__init__ run over src instead of dest, so
\* that the result follows src's order.
RECURSIVE IntersectSrcOrder(_, _, _)
IntersectSrcOrder(source_list, dest_list, k) ==
    IF k > Len(source_list)
    THEN [_src_vec |-> <<>>, _dest_vec |-> <<>>, landmarks |-> <<>>]
    ELSE LET rest == IntersectSrcOrder(source_list, dest_list, k + 1)
             landmark == source_list[k]
         IN  IF In(landmark, dest_list)
             THEN [_src_vec  |-> <<k - 1>> \o rest._src_vec,
                   _dest_vec |-> <<index(dest_list, landmark)>>
                                 \o rest._dest_vec,
                   landmarks |-> <<landmark>> \o rest.landmarks]
             ELSE rest

\* The loop of Intersection.__init__ from position k (1-based) of dest on;
\* the indices stored are 0-based.
RECURSIVE IntersectFrom(_, _, _)
IntersectFrom(source_list, dest_list, k) ==
    IF k > Len(dest_list)
    THEN [_src_vec |-> <<>>, _dest_vec |-> <<>>, landmarks |-> <<>>]
    ELSE LET rest == IntersectFrom(source_list, dest_list, k + 1)
             landmark == dest_list[k]
         IN  IF In(landmark, source_list)
             THEN [_src_vec  |-> <<index(source_list, landmark)>>
                                 \o rest._src_vec,
                   _dest_vec |-> <<k - 1>> \o rest._dest_vec,
                   landmarks |-> <<landmark>> \o rest.landmarks]
             ELSE rest

\* The number of elements of an array of the given shape.
RECURSIVE Size(_)
Size(shape) == IF shape = <<>> THEN 1 ELSE Head(shape) * Size(Tail(shape))

\* numpy.arange(Size(shape)).reshape(shape): every element is distinct.
Arange(shape) == [shape |-> shape, data |-> [i \in 1..Size(shape) |-> i - 1]]

\* The advanced-indexing gather keypoints[vec] (frames = 1, rows of
\* `cols` elements) and keypoints[:, vec] on the elements in row-major
\* order: `rows` is the length of the indexed axis.
Take(data, frames, rows, cols, vec) ==
    Flatten([f \in 1..frames |->
        Flatten([k \in 1..Len(vec) |->
            SubSeq(data, ((f - 1) * rows + vec[k]) * cols + 1,
                         ((f - 1) * rows + vec[k]) * cols + cols)])])

OutOfBounds(vec, length) == \E k \in 1..Len(vec) : vec[k] >= length

\* The outcomes of indexing axis `axis` (1-based) of keypoints by the list
\* vec.  An index beyond the axis is an IndexError; when the result would
\* hold no element (an empty frame axis), numpy releases before 1.20
\* skip the bounds check and return the empty array, releases from 1.20
\* on first warn and later raise: setup.py pins no release, so both
\* outcomes are possible.
Gather(keypoints, axis, vec) ==
    LET shape == keypoints.shape
        frames == IF axis = 1 THEN 1 ELSE shape[1]
        rows == shape[axis]
        cols == shape[axis + 1]
        result_shape == [shape EXCEPT ![axis] = Len(vec)]
        array == [returns |-> "array",
                  val |-> [shape |-> result_shape,
                           data |-> Take(keypoints.data, frames, rows,
                                         cols, vec)]]
        error == [returns |-> "IndexError", val |-> NoArray]
        empty == [returns |-> "array",
                  val |-> [shape |-> result_shape, data |-> <<>>]]
    IN  IF ~OutOfBounds(vec, rows) THEN {array}
        ELSE IF Size(result_shape) = 0 THEN {error, empty}
        ELSE {error}

\* Intersection.source / Intersection.destination with the index vector
\* each of them uses: the set of outcomes.
Project(vec, keypoints) ==
    IF Len(keypoints.shape) = 2 THEN Gather(keypoints, 1, vec)
    ELSE IF Len(keypoints.shape) = 3 THEN Gather(keypoints, 2, vec)
    ELSE {[returns |-> "None", val |-> NoArray]}

\* source() indexing with the destination's vector.
sourceByDestVec(self, keypoints) == Project(self._dest_vec, keypoints)

source(self, keypoints) == Project(self._src_vec, keypoints)

destination(self, keypoints) == Project(self._dest_vec, keypoints)

\* The landmark lists: lists without duplicates of at most MaxLen of the
\* pool's names.
MaxLen == 3

LandmarkPool == {"nose", "left hip", "right hip", "pelvis"}

RECURSIVE Lists(_, _)
Lists(k, names) ==
    IF k = 0 THEN {<<>>}
    ELSE {<<>>} \cup
         UNION {{<<n>> \o rest : rest \in Lists(k - 1, names \ {n})} :
                  n \in names}

\* The keypoint arrays: [landmarks], [landmarks, coordinates],
\* [frames, landmarks, coordinates] and [1, 1, landmarks, coordinates]
\* with up to MaxFrames frames and 2 or 3 coordinates.
MaxFrames == 1

Coordinates == {2, 3}

Shapes ==
    {<<l>> : l \in 0..MaxLen}
    \cup {<<l, c>> : l \in 0..MaxLen, c \in Coordinates}
    \cup {<<f, l, c>> : f \in 0..MaxFrames, l \in 0..MaxLen,
                        c \in Coordinates}
    \cup {<<1, 1, l, 2>> : l \in 0..MaxLen}

Self == [_src_vec |-> _src_vec, _dest_vec |-> _dest_vec,
         landmarks |-> landmarks]

\* Intersection(src, dest)
NewIntersection ==
    /\ status = "new"
    /\ LET self == IntersectFrom(src, dest, 1)
       IN  /\ _src_vec' = self._src_vec
           /\ _dest_vec' = self._dest_vec
           /\ landmarks' = self.landmarks
    /\ status' = "ok"
    /\ UNCHANGED <<src, dest, out, schema, _bones, _colours, ret,
                   sequence_vars>>

Call(op, keypoints, outcomes) ==
    /\ status = "ok"
    /\ out = NoOut
    /\ \E outcome \in outcomes :
         out' = [op |-> op, returns |-> outcome.returns,
                 keypoints |-> keypoints, val |-> outcome.val]
    /\ UNCHANGED <<src, dest, landmarks, _src_vec, _dest_vec,
                   skeleton_vars, sequence_vars>>

Source ==
    \E shape \in Shapes :
        Call("source", Arange(shape), source(Self, Arange(shape)))

Destination ==
    \E shape \in Shapes :
        Call("destination", Arange(shape),
             destination(Self, Arange(shape)))

InitIntersection ==
    /\ src \in Lists(MaxLen, LandmarkPool)
    /\ dest \in Lists(MaxLen, LandmarkPool)
    /\ landmarks = <<>> /\ _src_vec = <<>> /\ _dest_vec = <<>>
    /\ out = NoOut
    /\ SkeletonIdle /\ SequenceIdle

NextIntersection == NewIntersection \/ Source \/ Destination

SpecIntersection == InitIntersection /\ [][NextIntersection]_vars

(***************************************************************************)
(* Properties of Intersection                                              *)
(***************************************************************************)

\* C3: landmarks is exactly the sub-sequence of dest made of the names
\* that also occur in src: as many names as src and dest have in common,
\* in dest's relative order whatever the order of src.
C3_DestOrder ==
    status = "ok" =>
        /\ landmarks = SelectSeq(dest, LAMBDA n : n \in Elems(src))
        /\ Len(landmarks) = Cardinality(Elems(src) \cap Elems(dest))

\* An intersection of two or more names that src holds in another order
\* than dest.
C3_Witness ==
    /\ status = "ok"
    /\ Len(landmarks) >= 2
    /\ landmarks # SelectSeq(src, LAMBDA n : n \in Elems(dest))

\* The position (1-based) of the landmark axis of a rank 2 or 3 array.
LandmarkAxis(array) == Len(array.shape) - 1

\* The element of a rank 2 or 3 array at frame f, landmark row l and
\* coordinate c (all 0-based; f = 0 for rank 2).
Cell(array, f, l, c) ==
    LET rows == array.shape[LandmarkAxis(array)]
        cols == array.shape[LandmarkAxis(array) + 1]
    IN  array.data[(f * rows + l) * cols + c + 1]

FramesOf(array) == IF Len(array.shape) = 3 THEN array.shape[1] ELSE 1

\* The list the array given to the last call has to be aligned to.
CalledOn == IF out.op = "source" THEN src ELSE dest

Aligned ==
    /\ out.op \in {"source", "destination"}
    /\ Len(out.keypoints.shape) \in {2, 3}
    /\ out.keypoints.shape[LandmarkAxis(out.keypoints)] = Len(CalledOn)

\* C4: source() on a src-aligned array and destination() on a
\* dest-aligned array of rank 2 or 3 return an array whose landmark axis
\* has length len(landmarks), whose k-th landmark row is the row of the
\* argument at the position of landmarks[k] in src (resp. dest), and
\* whose other axes are unchanged; row k of both results belongs to the
\* same landmark name.
C4_Projection ==
    /\ status = "ok" =>
         \A k \in 1..Len(landmarks) :
            /\ src[_src_vec[k] + 1] = landmarks[k]
            /\ dest[_dest_vec[k] + 1] = landmarks[k]
    /\ Aligned =>
         /\ out.returns = "array"
         /\ out.val.shape =
              [out.keypoints.shape EXCEPT ![LandmarkAxis(out.keypoints)] =
                  Len(landmarks)]
         /\ Len(out.val.data) = Size(out.val.shape)
         /\ \A f \in 0..(FramesOf(out.keypoints) - 1),
               k \in 1..Len(landmarks),
               c \in 0..(out.keypoints.shape[Len(out.keypoints.shape)] - 1) :
                Cell(out.val, f, k - 1, c) =
                Cell(out.keypoints, f, index(CalledOn, landmarks[k]), c)

\* source() of a src-aligned array of one frame or more where the rows
\* are both selected and reordered.
C4_Witness ==
    /\ Aligned /\ out.op = "source"
    /\ Len(out.keypoints.shape) = 3 /\ out.keypoints.shape[1] >= 1
    /\ Len(landmarks) >= 2 /\ Len(landmarks) < Len(src)
    /\ _src_vec[1] > _src_vec[2]

\* The index vector the last call used.
CalledWith == IF out.op = "source" THEN _src_vec ELSE _dest_vec

TooShort ==
    /\ out.op \in {"source", "destination"}
    /\ Len(out.keypoints.shape) \in {2, 3}
    /\ OutOfBounds(CalledWith,
                   out.keypoints.shape[LandmarkAxis(out.keypoints)])

\* C5: when the landmark axis of the array handed to source() (resp.
\* destination()) is too short to contain every recorded index, the call
\* ends in an out-of-range error and returns no array.
C5_OutOfRange ==
    TooShort => out.returns = "IndexError" /\ out.val = NoArray

(***************************************************************************)
(* A skeleton and an intersection queried side by side                     *)
(***************************************************************************)

SharedSchemas == {StickPlayer, Keypoints17}

SharedPairs ==
    {<<<<"pelvis", "nose", "left hip">>, <<"nose", "pelvis">>>>,
     <<<<"nose", "right hip">>, <<"left hip", "right hip", "pelvis">>>>}

\* The caller is done with the array a projection returned.
Discard ==
    /\ out # NoOut
    /\ out' = NoOut
    /\ UNCHANGED <<src, dest, landmarks, _src_vec, _dest_vec,
                   skeleton_vars, sequence_vars>>

\* The state after _Skeleton(schema) and Intersection(src, dest).
InitShared ==
    /\ schema \in SharedSchemas
    /\ status = "ok"
    /\ _bones = _compute_bones(schema).val
    /\ _colours = _compute_colours(schema)
    /\ ret = NoRet
    /\ SequenceIdle
    /\ \E pair \in SharedPairs : src = pair[1] /\ dest = pair[2]
    /\ LET self == IntersectFrom(src, dest, 1)
       IN  /\ _src_vec = self._src_vec
           /\ _dest_vec = self._dest_vec
           /\ landmarks = self.landmarks
    /\ out = NoOut

NextShared ==
    \/ GetBoneList
    \/ PrintBones
    \/ GetColourDict
    \/ PrintColours
    \/ Consume
    \/ Source
    \/ Destination
    \/ Discard

SpecShared == InitShared /\ [][NextShared]_vars

(***************************************************************************)
(* Properties of the construction                                          *)
(***************************************************************************)

\* The bones of a section by landmark name.
NamedBones(sec) == print_bones(_bones, schema, sec)

\* The chain-shaped parts with their side prefix.
ChainParts ==
    {<<"spine", "">>, <<"head", "">>, <<"objects", "">>}
    \cup {<<bp, _sides[s]>> : bp \in {"leg", "arm"}, s \in 1..Len(_sides)}

\* The positions of the existing joints of a chain part, in chain order.
PresentJoints(cp) ==
    ExistingJoints(schema, Sided(cp[2], _body_parts[cp[1]].joints))

\* The colour stored for the k-th existing joint of a chain part.
StoredColour(cp, k) == _colours[SectionOf(cp[1])][PresentJoints(cp)[k]]

\* C1: building a skeleton completes without raising for every
\* duplicate-free list of landmark names, whichever catalog names are
\* absent from it.
C1_NeverRaises == status # "ValueError"

FixtureBuilt == schema = Fixture /\ status = "ok"

FixtureMain ==
    NamedBones(MAIN) = <<<<"left hip", "pelvis">>, <<"right hip", "pelvis">>>>

\* C2 as stated: for the schema ["nose", "left hip", "right hip",
\* "pelvis"] MAIN holds exactly (left hip, pelvis) and (right hip, pelvis),
\* and HEAD holds no bone.
C2_Original == FixtureBuilt => FixtureMain /\ _bones[HEAD] = <<>>

\* C2 amended: for that schema MAIN holds exactly (left hip, pelvis) and
\* (right hip, pelvis), and HEAD holds exactly the one bone (nose, pelvis):
\* "pelvis" is the top-most spine point present, and "nose" is linked to it.
C2_Fixture ==
    FixtureBuilt => FixtureMain /\ NamedBones(HEAD) = <<<<"nose", "pelvis">>>>

C2_Witness == FixtureBuilt /\ Len(_bones[HEAD]) = 1 /\ Len(_bones[MAIN]) = 2

\* A sequence of channel values runs in the start-to-end direction.
Monotonic(vals, start, end) ==
    LET up   == \A k \in 1..(Len(vals) - 1) : vals[k] <= vals[k + 1]
        down == \A k \in 1..(Len(vals) - 1) : vals[k] >= vals[k + 1]
    IN  /\ start < end => up
        /\ start > end => down
        /\ start = end => up \/ down

\* C7: in every chain-shaped part, one existing joint is coloured exactly
\* end; two are coloured exactly start and end; of n > 2 the first gets
\* start, the last gets end, and every channel is monotonic along the chain.
C7_ChainGradient ==
    status = "ok" =>
      \A cp \in ChainParts :
        LET n  == Len(PresentJoints(cp))
            pc == _part_colours[cp[2] \o cp[1]]
        IN  /\ n = 1 => StoredColour(cp, 1) = pc.end
            /\ n = 2 => /\ StoredColour(cp, 1) = pc.start
                        /\ StoredColour(cp, 2) = pc.end
            /\ n > 2 => /\ StoredColour(cp, 1) = pc.start
                        /\ StoredColour(cp, n) = pc.end
                        /\ \A c \in 1..3 :
                             Monotonic([k \in 1..n |-> StoredColour(cp, k)[c]],
                                       pc.start[c], pc.end[c])

\* v is a nearest integer of num / den (either neighbour on a tie).
Nearest(v, num, den) == 2 * den * v - den <= 2 * num /\ 2 * num <= 2 * den * v + den

\* C8: with n > 1 existing joints, channel c of the i-th (0-indexed) is
\* (start[c] * (n - 1 - i) + end[c] * i) / (n - 1) rounded to the nearest
\* integer.
C8_Rounded ==
    status = "ok" =>
      \A cp \in ChainParts :
        LET n  == Len(PresentJoints(cp))
            pc == _part_colours[cp[2] \o cp[1]]
        IN  n > 1 =>
              \A k \in 1..n, c \in 1..3 :
                Nearest(StoredColour(cp, k)[c],
                        pc.start[c] * (n - k) + pc.end[c] * (k - 1), n - 1)

(***************************************************************************)
(* Properties of the queries                                               *)
(***************************************************************************)

\* The bit of a section is set in a mask.
BitSet(mask, sec) == (mask \div sec) % 2 = 1

\* C9: the per-section colour maps have pairwise disjoint key sets, so
\* every key of get_colour_dict(mask) carries the colour stored for it in
\* the one enabled section that contains it.
C9_DisjointSections ==
    status = "ok" =>
      /\ \A s1, s2 \in Elems(Sections) :
           s1 # s2 => DOMAIN _colours[s1] \cap DOMAIN _colours[s2] = {}
      /\ ret.op = "get_colour_dict" =>
           /\ DOMAIN ret.val =
                UNION {DOMAIN _colours[sec] :
                         sec \in {x \in Elems(Sections) : BitSet(ret.mask, x)}}
           /\ \A key \in DOMAIN ret.val :
                \E sec \in Elems(Sections) :
                  /\ BitSet(ret.mask, sec)
                  /\ key \in DOMAIN _colours[sec]
                  /\ ret.val[key] = _colours[sec][key]
                  /\ \A other \in Elems(Sections) \ {sec} :
                       key \notin DOMAIN _colours[other]

\* A colour dictionary assembled from all six sections, none of them empty.
C9_Witness ==
    /\ status = "ok"
    /\ ret.op = "get_colour_dict" /\ ret.mask = FULL + OBJECTS
    /\ \A sec \in Elems(Sections) : DOMAIN _colours[sec] # {}

\* The names of one side's list part.
SideNames(side, body_part) == Elems(Sided(side, _body_parts[body_part].joints))

\* The place of a MAIN bone, told by the names of its two ends: 1, 2 the
\* left and right arm chain, 3 a shoulder link (an arm joint to the other
\* side, to the spine or to a hip), 4, 5 the leg chains, 6 a hip link (a hip
\* to the other hip or to the spine), 7 the spine chain.
MainPlace(bone) ==
    LET a == At(schema, bone[1])
        b == At(schema, bone[2])
        within(names) == a \in names /\ b \in names
    IN  CASE within(SideNames("left ", "arm"))  -> 1
          [] within(SideNames("right ", "arm")) -> 2
          [] a \in SideNames("left ", "arm") \cup SideNames("right ", "arm") -> 3
          [] within(SideNames("left ", "leg"))  -> 4
          [] within(SideNames("right ", "leg")) -> 5
          [] a \in Hips                         -> 6
          [] within(SpineNames)                 -> 7
          [] OTHER                              -> 0

\* What a section contributes to the bone list of a mask.
Contribution(mask, sec) == IF BitSet(mask, sec) THEN _bones[sec] ELSE <<>>

\* C10: get_bone_list(mask) is the concatenation of the enabled sections'
\* bone lists in the order MAIN, HEAD, FACE, HANDS, FEET, OBJECTS, and
\* within MAIN the bones appear as left-arm chain, right-arm chain,
\* shoulder links, left-leg chain, right-leg chain, hip links, spine chain.
C10_BoneOrder ==
    status = "ok" =>
      /\ \A k \in 1..Len(_bones[MAIN]) : MainPlace(_bones[MAIN][k]) # 0
      /\ \A k \in 1..(Len(_bones[MAIN]) - 1) :
           MainPlace(_bones[MAIN][k]) <= MainPlace(_bones[MAIN][k + 1])
      /\ ret.op = "get_bone_list" =>
           ret.val = Contribution(ret.mask, MAIN) \o Contribution(ret.mask, HEAD)
                     \o Contribution(ret.mask, FACE)
                     \o Contribution(ret.mask, HANDS)
                     \o Contribution(ret.mask, FEET)
                     \o Contribution(ret.mask, OBJECTS)

\* A bone list over all six sections, none empty, of a skeleton whose MAIN
\* section has bones in all seven places.
C10_Witness ==
    /\ status = "ok"
    /\ ret.op = "get_bone_list" /\ ret.mask = FULL + OBJECTS
    /\ \A sec \in Elems(Sections) : _bones[sec] # <<>>
    /\ {MainPlace(_bones[MAIN][k]) : k \in 1..Len(_bones[MAIN])} = 1..7

\* C11: get_bone_list(mask) and get_colour_dict(mask) hold the content of
\* exactly the sections whose bit is set in mask and of no other: FULL
\* never yields an OBJECTS bone or colour, OBJECTS content appears only
\* when bit 32 is set, and the empty mask yields an empty list / dict.
C11_MaskFilter ==
    status = "ok" =>
      LET on == {sec \in Elems(Sections) : BitSet(ret.mask, sec)}
          off == Elems(Sections) \ on
      IN  /\ ret.op = "get_bone_list" =>
               /\ Elems(ret.val) = UNION {Elems(_bones[sec]) : sec \in on}
               /\ \A sec \in off : Elems(ret.val) \cap Elems(_bones[sec]) = {}
               /\ ret.mask = 0 => ret.val = <<>>
               /\ ret.mask = FULL =>
                    Elems(ret.val) \cap Elems(_bones[OBJECTS]) = {}
               /\ Elems(ret.val) \cap Elems(_bones[OBJECTS]) # {} =>
                    ret.mask \div OBJECTS = 1
          /\ ret.op = "get_colour_dict" =>
               /\ DOMAIN ret.val = UNION {DOMAIN _colours[sec] : sec \in on}
               /\ \A sec \in off : DOMAIN ret.val \cap DOMAIN _colours[sec] = {}
               /\ ret.mask = 0 => DOMAIN ret.val = {}
               /\ ret.mask = FULL =>
                    DOMAIN ret.val \cap DOMAIN _colours[OBJECTS] = {}
               /\ DOMAIN ret.val \cap DOMAIN _colours[OBJECTS] # {} =>
                    ret.mask \div OBJECTS = 1

\* The bone list of FULL for a skeleton that has an OBJECTS bone.
C11_Witness ==
    /\ status = "ok"
    /\ ret.op = "get_bone_list" /\ ret.mask = FULL
    /\ ret.val # <<>> /\ _bones[OBJECTS] # <<>>

\* What the last query returns when issued right after a construction
\* from the same arguments.
FreshRet ==
    LET bones == _compute_bones(schema).val
        colours == _compute_colours(schema)
    IN  CASE ret.op = "get_bone_list" -> get_bone_list(bones, ret.mask)
          [] ret.op = "print_bones" -> print_bones(bones, schema, ret.mask)
          [] ret.op = "get_colour_dict" -> get_colour_dict(colours, ret.mask)
          [] ret.op = "print_colours" ->
                print_colours(colours, schema, ret.mask)
          [] OTHER -> ret.val

FreshOut ==
    LET self == IntersectFrom(src, dest, 1)
    IN  CASE out.op = "source" -> source(self, out.keypoints)
          [] out.op = "destination" -> destination(self, out.keypoints)
          [] OTHER -> {[returns |-> out.returns, val |-> out.val]}

\* C12: after construction no sequence of queries, failing ones included,
\* changes the stored bone lists, colour maps, landmarks or index
\* vectors, and a query issued after any such sequence returns what the
\* same query returns right after construction.
C12_QueriesPure ==
    /\ [][UNCHANGED <<_bones, _colours, landmarks, _src_vec, _dest_vec>>]_vars
    /\ [](/\ ret.val = FreshRet
          /\ [returns |-> out.returns, val |-> out.val] \in FreshOut)

\* A failed projection and a bone list held at the same time.
C12_Witness ==
    /\ out.returns = "IndexError"
    /\ ret.op = "get_bone_list" /\ ret.val # <<>>

\* Every name the catalog can generate: the unsided list parts, and each
\* entry, tree child and tree parent of the sided parts with each side
\* prefix.
CatalogNames ==
    UNION {IF _body_parts[bp].kind = "list"
           THEN IF In(bp, _sided_bodyparts)
                THEN UNION {Elems(Sided(_sides[n], _body_parts[bp].joints)) :
                               n \in 1..Len(_sides)}
                ELSE Elems(_body_parts[bp].joints)
           ELSE {_sides[n] \o pair[m] :
                    n \in 1..Len(_sides), m \in 1..2,
                    pair \in Elems(_body_parts[bp].joints)} :
           bp \in Elems(BodyPartNames)}

\* C13: for a schema that contains every name the catalog can generate,
\* the sections hold 25 (MAIN), 2 (HEAD), 4 (FACE), 4 (HANDS), 6 (FEET) and
\* 1 (OBJECTS) bones.
C13_FullCounts ==
    (status = "ok" /\ CatalogNames \subseteq Elems(schema)) =>
        /\ Len(_bones[MAIN]) = 2 * 4 + 2 + 2 * 3 + 2 + 7
        /\ Len(_bones[HEAD]) = 1 + 1
        /\ Len(_bones[FACE]) = 4
        /\ Len(_bones[HANDS]) = 4
        /\ Len(_bones[FEET]) = 6
        /\ Len(_bones[OBJECTS]) = 1

\* A skeleton built from a schema with all 46 catalog names, last name
\* first.
C13_Witness ==
    /\ status = "ok"
    /\ CatalogNames \subseteq Elems(schema)
    /\ Cardinality(CatalogNames) = 46
    /\ schema[1] = Layout[Len(Layout)]

\* The positions (0-based) of the schema that an end of a bone or a key of
\* a colour map refers to.
Referenced ==
    UNION {{_bones[sec][k][e] : k \in 1..Len(_bones[sec]), e \in 1..2}
           \cup DOMAIN _colours[sec] : sec \in Elems(Sections)}

\* C14: names of the schema that are not catalog names are never
\* referenced: no position holding one is an end of a bone or a key of a
\* colour map, and their presence never causes an error (a construction
\* that raises also raises without them).
C14_UnknownIgnored ==
    /\ status = "ok" =>
         \A p \in Referenced :
            p \in 0..(Len(schema) - 1) /\ At(schema, p) \in CatalogNames
    /\ status = "ValueError" =>
         _compute_bones(SelectSeq(schema,
                                  LAMBDA n : n \in CatalogNames)).err

\* A skeleton with bones and colours whose schema holds the three names
\* unknown to the catalog.
C14_Witness ==
    /\ status = "ok"
    /\ UnknownNames \subseteq Elems(schema)
    /\ UnknownNames \cap CatalogNames = {}
    /\ _bones[MAIN] # <<>> /\ DOMAIN _colours[MAIN] # {}

\* The tree-shaped parts with the section each is stored in.
TreeSection == [face |-> FACE, hand |-> HANDS, foot |-> FEET]

\* The children and the parents of a tree part's template.
Children(bp) == {pair[1] : pair \in Elems(_body_parts[bp].joints)}
Parents(bp) == {pair[2] : pair \in Elems(_body_parts[bp].joints)}

\* The present joints among the given names of one side of a tree part
\* carry the part's flat colour in the part's section.
FlatColoured(bp, side, names) ==
    \A joint \in names :
        In(side \o joint, schema) =>
            LET key == index(schema, side \o joint)
            IN  /\ key \in DOMAIN _colours[TreeSection[bp]]
                /\ _colours[TreeSection[bp]][key] =
                     _part_colours[side \o bp].colour

\* C15 as stated: for each tree-shaped part and side, every present
\* side-prefixed joint of the part's child-to-parent template (child or
\* parent) has the fixed colour of that side and part, stored in the
\* part's section.
C15_Original ==
    status = "ok" =>
        \A bp \in DOMAIN TreeSection, n \in 1..Len(_sides) :
            FlatColoured(bp, _sides[n], Children(bp) \cup Parents(bp))

\* C15 amended: every present side-prefixed CHILD of the template has
\* the fixed colour of that side and part in the part's section, and the
\* part's section colours nothing else: a parent that is not also a child
\* gets no colour from the tree part.
C15_TreeChildren ==
    status = "ok" =>
        \A bp \in DOMAIN TreeSection :
            /\ \A n \in 1..Len(_sides) :
                  FlatColoured(bp, _sides[n], Children(bp))
            /\ \A key \in DOMAIN _colours[TreeSection[bp]] :
                  \E n \in 1..Len(_sides), joint \in Children(bp) :
                      At(schema, key) = _sides[n] \o joint

\* A left hand tree whose children carry the flat colour in HANDS while
\* its parent "left hand" carries an arm colour in MAIN.
C15_Witness ==
    /\ status = "ok"
    /\ In("left handtip", schema) /\ In("left thumb", schema)
    /\ In("left hand", schema)
    /\ _colours[HANDS][index(schema, "left thumb")] = <<120, 255, 120>>
    /\ index(schema, "left hand") \in DOMAIN _colours[MAIN]

\* The MAIN bones of one place, by the names of their ends.
Links(place) ==
    LET bones == SelectSeq(_bones[MAIN], LAMBDA b : MainPlace(b) = place)
    IN  [k \in 1..Len(bones) |->
           <<At(schema, bones[k][1]), At(schema, bones[k][2])>>]

ShoulderLinks == Links(3)
HipLinks == Links(6)

SomePresent(names) == \E k \in 1..Len(names) : In(names[k], schema)

\* The first name of a list that the schema holds.
FirstNamed(names) ==
    names[CHOOSE k \in 1..Len(names) :
            /\ In(names[k], schema)
            /\ \A j \in 1..(k - 1) : ~In(names[j], schema)]

\* The limb-end joint of the shoulder pass: the clavicle when the left
\* clavicle exists, else the shoulder when the left shoulder exists.
ShoulderEnd ==
    IF In("left clavicle", schema) THEN "clavicle"
    ELSE IF In("left shoulder", schema) THEN "shoulder" ELSE ""

\* The preferred attachments and the secondary candidates of each pass.
ShoulderPreferred == <<"shoulder centre", "neck">>
HipPreferred == <<"pelvis">>
ShoulderSecondary == <<"shoulder centre", "thorax", "mid torso", "belly", "pelvis">>
HipSecondary == <<"belly", "mid torso", "thorax", "shoulder centre", "neck">>

\* C16: limb-to-spine step 1: with a preferred attachment present, the
\* shoulder pass and the hip pass each contribute exactly the two bones
\* (left limb-end, attachment), (right limb-end, attachment) to the FIRST
\* present preferred name, and nothing else.
C16_PreferredAttachment ==
    status = "ok" =>
      /\ (ShoulderEnd # "" /\ SomePresent(ShoulderPreferred)) =>
           ShoulderLinks =
             <<<<"left " \o ShoulderEnd, FirstNamed(ShoulderPreferred)>>,
               <<"right " \o ShoulderEnd, FirstNamed(ShoulderPreferred)>>>>
      /\ SomePresent(HipPreferred) =>
           HipLinks = <<<<"left hip", "pelvis">>, <<"right hip", "pelvis">>>>

\* Both passes in step 1, the shoulders attached to "neck" for want of
\* "shoulder centre".
C16_Witness ==
    /\ status = "ok"
    /\ ShoulderEnd = "shoulder"
    /\ ~In("shoulder centre", schema) /\ In("neck", schema)
    /\ In("pelvis", schema) /\ In("thorax", schema)
    /\ Len(ShoulderLinks) = 2 /\ Len(HipLinks) = 2

\* C17: limb-to-spine step 2: with no preferred attachment but a
\* secondary spine candidate present, a pass contributes exactly
\* (left end, right end), (left end, anchor), (right end, anchor) in this
\* order, the anchor being the first present secondary candidate.
C17_SecondaryAnchor ==
    status = "ok" =>
      /\ (/\ ShoulderEnd # ""
          /\ ~SomePresent(ShoulderPreferred)
          /\ SomePresent(ShoulderSecondary)) =>
           ShoulderLinks =
             <<<<"left " \o ShoulderEnd, "right " \o ShoulderEnd>>,
               <<"left " \o ShoulderEnd, FirstNamed(ShoulderSecondary)>>,
               <<"right " \o ShoulderEnd, FirstNamed(ShoulderSecondary)>>>>
      /\ (~SomePresent(HipPreferred) /\ SomePresent(HipSecondary)) =>
           HipLinks =
             <<<<"left hip", "right hip">>,
               <<"left hip", FirstNamed(HipSecondary)>>,
               <<"right hip", FirstNamed(HipSecondary)>>>>

\* Both passes in step 2 with different anchors: the shoulders on
\* "mid torso", the hips on "belly".
C17_Witness ==
    /\ status = "ok"
    /\ ShoulderEnd # ""
    /\ ~SomePresent(ShoulderPreferred) /\ ~In("pelvis", schema)
    /\ ~In("thorax", schema)
    /\ In("mid torso", schema) /\ In("belly", schema)
    /\ Len(ShoulderLinks) = 3 /\ Len(HipLinks) = 3

\* C18: limb-to-spine step 3: with neither a preferred attachment nor a
\* secondary candidate present, the shoulder pass contributes the bone
\* between its two limb-ends and one bone from each limb-end to the hip of
\* its side, and the hip pass contributes only (left hip, right hip).
C18_TorsoBox ==
    status = "ok" =>
      /\ (/\ ShoulderEnd # ""
          /\ ~SomePresent(ShoulderPreferred)
          /\ ~SomePresent(ShoulderSecondary)) =>
           ShoulderLinks =
             <<<<"left " \o ShoulderEnd, "right " \o ShoulderEnd>>,
               <<"left " \o ShoulderEnd, "left hip">>,
               <<"right " \o ShoulderEnd, "right hip">>>>
      /\ (~SomePresent(HipPreferred) /\ ~SomePresent(HipSecondary)) =>
           HipLinks = <<<<"left hip", "right hip">>>>

\* A torso quadrilateral: clavicles and hips with no spine point below
\* the head.
C18_Witness ==
    /\ status = "ok"
    /\ ShoulderEnd = "clavicle"
    /\ ~SomePresent(ShoulderPreferred) /\ ~SomePresent(ShoulderSecondary)
    /\ Len(ShoulderLinks) = 3 /\ Len(HipLinks) = 1

\* The spine names in spine order.
SpineOrder ==
    <<"head centre", "head", "neck", "shoulder centre", "thorax",
      "mid torso", "belly", "pelvis">>

\* C19: the HEAD section holds the head-chain bone (head top, nose) when
\* both exist, followed by at most one head-to-spine bone; that bone
\* exists exactly when "nose" or "head top" and a spine name are present,
\* starts at "nose" if present and otherwise at "head top", and ends at
\* the first present name in spine order.
C19_HeadLink ==
    status = "ok" =>
        NamedBones(HEAD) =
            (IF In("head top", schema) /\ In("nose", schema)
             THEN <<<<"head top", "nose">>>> ELSE <<>>)
            \o (IF (In("nose", schema) \/ In("head top", schema))
                    /\ SomePresent(SpineOrder)
                THEN <<<<IF In("nose", schema) THEN "nose" ELSE "head top",
                         FirstNamed(SpineOrder)>>>>
                ELSE <<>>)

\* A head with both head joints, linked from the nose to "neck", the
\* top-most spine point present, behind the chain bone.
C19_Witness ==
    /\ status = "ok"
    /\ ~In("head centre", schema) /\ ~In("head", schema)
    /\ In("pelvis", schema)
    /\ NamedBones(HEAD) = <<<<"head top", "nose">>, <<"nose", "neck">>>>

\* The bones of a tree part by the names of their ends.
TreeBones(bp) == NamedBones(TreeSection[bp])

\* C20: the FACE, HANDS and FEET sections hold, for each side and each
\* child-to-parent pair of the part's template, the bone (side+child,
\* side+parent) if and only if both names are present, and no other bone;
\* an unsided name is never an end of such a bone.
C20_TreeConnect ==
    status = "ok" =>
        \A bp \in DOMAIN TreeSection :
            /\ Elems(TreeBones(bp)) =
                 {<<_sides[n] \o pair[1], _sides[n] \o pair[2]>> :
                     n \in 1..Len(_sides),
                     pair \in Elems(_body_parts[bp].joints)}
                 \cap (Elems(schema) \X Elems(schema))
            /\ Cardinality(Elems(TreeBones(bp))) = Len(TreeBones(bp))
            /\ \A k \in 1..Len(TreeBones(bp)), e \in 1..2 :
                 TreeBones(bp)[k][e] \notin Unsided

\* A face whose left eye has no "left nose" to connect to although "nose"
\* exists: only the ear-to-eye bone of that side is made.
C20_Witness ==
    /\ status = "ok"
    /\ In("nose", schema) /\ In("left eye", schema)
    /\ In("left ear", schema) /\ ~In("left nose", schema)
    /\ In("right eye", schema) /\ In("right nose", schema)
    /\ Elems(TreeBones("face")) =
         {<<"left ear", "left eye">>, <<"right eye", "right nose">>}

\* C21: construction succeeds if and only if both "left hip" and
\* "right hip" are present and the limb end selected by the shoulder pass
\* ("clavicle" if "left clavicle" is present, otherwise "shoulder" if
\* "left shoulder" is present) also exists with the "right " prefix; in
\* every other case it aborts with a ValueError and no skeleton is made.
C21_SuccessCondition ==
    status # "new" =>
        /\ status = "ok" <=>
             /\ In("left hip", schema) /\ In("right hip", schema)
             /\ ShoulderEnd # "" => In("right " \o ShoulderEnd, schema)
        /\ status # "ok" =>
             /\ status = "ValueError"
             /\ _bones = NoBones /\ _colours = NoColours

\* A construction that raises with both hips and both shoulders present:
\* the left clavicle selects "clavicle", and there is no right clavicle.
C21_Witness ==
    /\ status = "ValueError"
    /\ In("left hip", schema) /\ In("right hip", schema)
    /\ In("left shoulder", schema) /\ In("right shoulder", schema)
    /\ In("left clavicle", schema) /\ ~In("right clavicle", schema)

\* C22: for every built skeleton and every mask, the first index of every
\* bone of get_bone_list(mask) is a key of get_colour_dict(mask) for the
\* same mask, so the renderers' lookup colours[bone[0]] never fails, even
\* when the bone's second end is coloured in a section that is not
\* enabled.
C22_BoneStartColoured ==
    (status = "ok" /\ ret.op = "get_bone_list") =>
        \A k \in 1..Len(ret.val) :
            /\ ret.val[k][1] \in DOMAIN get_colour_dict(_colours, ret.mask)
            /\ \E sec \in Elems(Sections) :
                  /\ BitSet(ret.mask, sec)
                  /\ ret.val[k] \in Elems(_bones[sec])
                  /\ ret.val[k][1] \in DOMAIN _colours[sec]

\* The bone list of FEET alone with a toe-to-ankle bone: the ankle is
\* coloured in MAIN only, so the colour dict of the mask lacks the bone's
\* second end.
C22_Witness ==
    /\ status = "ok"
    /\ ret.op = "get_bone_list" /\ ret.mask = FEET
    /\ \E k \in 1..Len(ret.val) :
         /\ At(schema, ret.val[k][1]) = "left big toe"
         /\ At(schema, ret.val[k][2]) = "left ankle"
         /\ ret.val[k][2] \notin DOMAIN get_colour_dict(_colours, FEET)
         /\ ret.val[k][2] \in DOMAIN _colours[MAIN]

\* The arm joints of both sides.
ArmNames == SideNames("left ", "arm") \cup SideNames("right ", "arm")

\* The MAIN bones, by name, that touch an arm joint without lying within
\* the arm of one side: what a shoulder pass adds.
CrossArmBones ==
    {bone \in Elems(NamedBones(MAIN)) :
        /\ {bone[1], bone[2]} \cap ArmNames # {}
        /\ ~({bone[1], bone[2]} \subseteq SideNames("left ", "arm"))
        /\ ~({bone[1], bone[2]} \subseteq SideNames("right ", "arm"))}

\* C23: the shoulder pass runs at most once with the limb end chosen by
\* the left side only: "clavicle" when "left clavicle" is present (the
\* shoulders then get no bone of the pass), else "shoulder" when
\* "left shoulder" is present; with neither left name present there is no
\* shoulder-to-spine, shoulder-to-shoulder or shoulder-to-hip bone, even
\* if the right-side names are present.
C23_LeftSideSelects ==
    status = "ok" =>
        /\ \A bone \in CrossArmBones :
              /\ ShoulderEnd # ""
              /\ {bone[1], bone[2]} \cap ArmNames
                   \subseteq {"left " \o ShoulderEnd, "right " \o ShoulderEnd}
        /\ ShoulderEnd # "" =>
              /\ Cardinality(CrossArmBones) \in {2, 3}
              /\ \A n \in 1..Len(_sides) :
                    Cardinality({bone \in CrossArmBones :
                                   bone[1] = _sides[n] \o ShoulderEnd}) <= 2
        /\ ShoulderEnd = "" => CrossArmBones = {}

\* A skeleton with the right shoulder and the right clavicle, and a bone
\* between them, but no left shoulder or clavicle: no pass.
C23_Witness ==
    /\ status = "ok"
    /\ ~In("left clavicle", schema) /\ ~In("left shoulder", schema)
    /\ In("right clavicle", schema) /\ In("right shoulder", schema)
    /\ In("shoulder centre", schema)
    /\ <<"right shoulder", "right clavicle">> \in Elems(NamedBones(MAIN))

\* The secondary anchors in the order each pass meets them.
TopDown == <<"thorax", "mid torso", "belly", "pelvis">>
BottomUp == <<"belly", "mid torso", "thorax", "shoulder centre", "neck">>

\* The spine names at the far end of a pass's bones.
Anchors(links) ==
    {links[k][2] : k \in 1..Len(links)} \cap Elems(SpineOrder)

\* C24: the secondary anchor is the present spine point nearest the limb:
\* the shoulder pass takes the first present of thorax, mid torso, belly,
\* pelvis, the hip pass the first present of belly, mid torso, thorax,
\* shoulder centre, neck; "head centre" and "head" are never an anchor,
\* so a schema whose only spine names are these two gets the bones of
\* step 3.
C24_NearestAnchor ==
    status = "ok" =>
        /\ (ShoulderEnd # "" /\ ~SomePresent(ShoulderPreferred)) =>
             Anchors(ShoulderLinks) =
                IF SomePresent(TopDown) THEN {FirstNamed(TopDown)} ELSE {}
        /\ ~SomePresent(HipPreferred) =>
             Anchors(HipLinks) =
                IF SomePresent(BottomUp) THEN {FirstNamed(BottomUp)} ELSE {}
        /\ (Anchors(ShoulderLinks) \cup Anchors(HipLinks))
             \cap {"head centre", "head"} = {}
        /\ Elems(schema) \cap Elems(SpineOrder)
                \subseteq {"head centre", "head"} =>
             /\ HipLinks = <<<<"left hip", "right hip">>>>
             /\ ShoulderEnd # "" =>
                  /\ Len(ShoulderLinks) = 3
                  /\ {ShoulderLinks[2][2], ShoulderLinks[3][2]} = Hips

\* Shoulders and hips with "head centre" and "head" as the only spine
\* names: both passes end in step 3.
C24_Witness ==
    /\ status = "ok"
    /\ ShoulderEnd = "shoulder"
    /\ Elems(schema) \cap Elems(SpineOrder) = {"head centre", "head"}
    /\ Len(ShoulderLinks) = 3 /\ Len(HipLinks) = 1

====
